---- MODULE Spec2Model ----
(***************************************************************************)
(* Packaging utilities of the reproducibility bundle: the checksum         *)
(* manifest writer (make_checksums.py), the archive builders               *)
(* (scripts/zenodo_pack.py, scripts/prereg_pack.py) and the archive        *)
(* verifier (scripts/verify_archive.py).                                   *)
(*                                                                         *)
(* Text is modelled at the level of characters: a string is a tuple of     *)
(* one-character strings, a path is the tuple of its components.           *)
(***************************************************************************)
EXTENDS Integers, Sequences, FiniteSets, TLC

VARIABLES
    fs,       \* the project tree: path (tuple of components) -> [exists, data]
    zips,     \* the archive files: name -> [exists, members]
    mc,       \* make_checksums.py: the running manifest writer
    pk,       \* zenodo_pack.py / prereg_pack.py: the running archive builder
    vf,       \* verify_archive.py: the running verifier
    codec,    \* manifest codec round trip: entries, text written, mapping parsed
    faults,   \* damaged archives: files that are no zip, members that fail to read
    cs,       \* check_summary.py: the running summarizer and its inputs
    gr        \* ghost_reorg.py: the running reorganisation and its repository

vars == <<fs, zips, mc, pk, vf, codec, faults, cs, gr>>

(***************************************************************************)
(* Characters and strings                                                  *)
(***************************************************************************)

\* The characters of the model, in ASCII order.
AsciiOrder ==
    << "\t", "\n", " ", "#", "(", ")", "-", ".", "/",
       "0", "1", "2", "3", "4", "5", "6", "7", "8", "9",
       "A", "B", "C", "D", "E", "F", "G", "H", "I", "J", "K", "L", "M",
       "N", "O", "P", "Q", "R", "S", "T", "U", "V", "W", "X", "Y", "Z",
       "_",
       "a", "b", "c", "d", "e", "f", "g", "h", "i", "j", "k", "l", "m",
       "n", "o", "p", "q", "r", "s", "t", "u", "v", "w", "x", "y", "z" >>

CharSet == {AsciiOrder[i] : i \in 1..Len(AsciiOrder)}

OrdTable == [c \in CharSet |-> CHOOSE i \in 1..Len(AsciiOrder) : AsciiOrder[i] = c]

Ord(c) == OrdTable[c]

\* str.lower() on one character: "A".."Z" map to "a".."z", the rest is kept.
LowerChar(c) ==
    IF Ord(c) >= Ord("A") /\ Ord(c) <= Ord("Z")
    THEN AsciiOrder[Ord(c) + (Ord("a") - Ord("A"))]
    ELSE c

LowerStr(s) == [i \in 1..Len(s) |-> LowerChar(s[i])]

\* str.isspace() on the characters of the model.
IsSpace(c) == c \in {" ", "\t", "\n"}

StartsWith(s, p) == Len(p) <= Len(s) /\ SubSeq(s, 1, Len(p)) = p

EndsWith(s, p) == Len(p) <= Len(s) /\ SubSeq(s, Len(s) - Len(p) + 1, Len(s)) = p

\* Python's < on str: lexicographic by code point, a proper prefix is smaller.
StrLess(a, b) ==
    \E k \in 1..(Len(b)) :
        /\ k - 1 <= Len(a)
        /\ SubSeq(a, 1, k - 1) = SubSeq(b, 1, k - 1)
        /\ (k > Len(a) \/ Ord(a[k]) < Ord(b[k]))

MinOf(S) == CHOOSE x \in S : \A y \in S : x <= y
MaxOf(S) == CHOOSE x \in S : \A y \in S : x >= y

\* str.strip(): leading and trailing whitespace removed.
Strip(s) ==
    LET keep == {i \in 1..Len(s) : ~IsSpace(s[i])}
    IN  IF keep = {} THEN <<>> ELSE SubSeq(s, MinOf(keep), MaxOf(keep))

\* str.split() with no argument: the maximal runs of non-whitespace.
RECURSIVE Split(_)
Split(s) ==
    LET keep == {i \in 1..Len(s) : ~IsSpace(s[i])}
    IN  IF keep = {} THEN <<>>
        ELSE LET first == MinOf(keep)
                 stops == {i \in first..Len(s) : IsSpace(s[i])}
                 last  == IF stops = {} THEN Len(s) ELSE MinOf(stops) - 1
             IN  <<SubSeq(s, first, last)>> \o Split(SubSeq(s, last + 1, Len(s)))

\* The concatenation of a sequence of strings.
RECURSIVE Concat(_)
Concat(ss) == IF ss = <<>> THEN <<>> ELSE Head(ss) \o Concat(Tail(ss))

\* file.readlines(): the text cut after every newline, line ends kept.
RECURSIVE ReadLines(_)
ReadLines(text) ==
    IF text = <<>> THEN <<>>
    ELSE LET nl  == {i \in 1..Len(text) : text[i] = "\n"}
             cut == IF nl = {} THEN Len(text) ELSE MinOf(nl)
         IN  <<SubSeq(text, 1, cut)>> \o ReadLines(SubSeq(text, cut + 1, Len(text)))

\* The orders a set may be listed in.
RECURSIVE AllOrders(_)
AllOrders(S) ==
    IF S = {} THEN {<<>>}
    ELSE UNION {{<<x>> \o t : t \in AllOrders(S \ {x})} : x \in S}

(***************************************************************************)
(* Python dict: insertion ordered, one value per key.  A dict is a         *)
(* sequence of <<key, value>> pairs with distinct keys.                    *)
(***************************************************************************)

DictKeys(d) == {d[i][1] : i \in 1..Len(d)}

DictGet(d, k) == (CHOOSE i \in 1..Len(d) : d[i][1] = k)

\* d[k] = v
DictSet(d, k, v) ==
    IF k \in DictKeys(d)
    THEN [d EXCEPT ![DictGet(d, k)] = <<k, v>>]
    ELSE Append(d, <<k, v>>)

\* d.update(e)
RECURSIVE DictUpdate(_, _)
DictUpdate(d, e) ==
    IF e = <<>> THEN d
    ELSE DictUpdate(DictSet(d, Head(e)[1], Head(e)[2]), Tail(e))

\* The mapping a dict denotes.
AsMap(d) == [k \in DictKeys(d) |-> d[DictGet(d, k)][2]]


(***************************************************************************)
(* Names of the programs                                                   *)
(***************************************************************************)

\* "reports"
S_reports == << "r", "e", "p", "o", "r", "t", "s" >>
\* "plr-prl"
S_plr_prl == << "p", "l", "r", "-", "p", "r", "l" >>
\* "checksums_SHA256.txt"
S_checksums_SHA256_txt ==
    << "c", "h", "e", "c", "k", "s", "u", "m", "s", "_", "S", "H", "A", "2", "5", "6",
       ".", "t", "x", "t" >>
\* "checksums_SHA256_data.txt"
S_checksums_SHA256_data_txt ==
    << "c", "h", "e", "c", "k", "s", "u", "m", "s", "_", "S", "H", "A", "2", "5", "6",
       "_", "d", "a", "t", "a", ".", "t", "x", "t" >>

\* "scripts"
S_scripts == << "s", "c", "r", "i", "p", "t", "s" >>
\* "figs"
S_figs == << "f", "i", "g", "s" >>
\* "data"
S_data == << "d", "a", "t", "a" >>
\* "dist"
S_dist == << "d", "i", "s", "t" >>
\* ".git"
S_dot_git == << ".", "g", "i", "t" >>
\* "__pycache__"
S_pycache == << "_", "_", "p", "y", "c", "a", "c", "h", "e", "_", "_" >>
\* ".DS_Store"
S_DS_Store == << ".", "D", "S", "_", "S", "t", "o", "r", "e" >>
\* "main.pdf"
S_main_pdf == << "m", "a", "i", "n", ".", "p", "d", "f" >>
\* "supplemental.pdf"
S_supplemental_pdf == << "s", "u", "p", "p", "l", "e", "m", "e", "n", "t", "a", "l", ".", "p", "d", "f" >>
\* "manifest.yaml"
S_manifest_yaml == << "m", "a", "n", "i", "f", "e", "s", "t", ".", "y", "a", "m", "l" >>
\* "Makefile"
S_Makefile == << "M", "a", "k", "e", "f", "i", "l", "e" >>
\* "latexmkrc"
S_latexmkrc == << "l", "a", "t", "e", "x", "m", "k", "r", "c" >>
\* "plr.bib"
S_plr_bib == << "p", "l", "r", ".", "b", "i", "b" >>
\* "README"
S_README == << "R", "E", "A", "D", "M", "E" >>
\* "README_packaging.md"
S_README_packaging_md == << "R", "E", "A", "D", "M", "E", "_", "p", "a", "c", "k", "a", "g", "i", "n", "g", ".", "m", "d" >>
\* "CITATION.cff"
S_CITATION_cff == << "C", "I", "T", "A", "T", "I", "O", "N", ".", "c", "f", "f" >>
\* "zenodo.json"
S_zenodo_json == << "z", "e", "n", "o", "d", "o", ".", "j", "s", "o", "n" >>
\* "FILE_LISTING.txt"
S_FILE_LISTING_txt == << "F", "I", "L", "E", "_", "L", "I", "S", "T", "I", "N", "G", ".", "t", "x", "t" >>
\* ".pdf"
Ext_pdf == << ".", "p", "d", "f" >>
\* ".png"
Ext_png == << ".", "p", "n", "g" >>
\* ".jpg"
Ext_jpg == << ".", "j", "p", "g" >>
\* ".jpeg"
Ext_jpeg == << ".", "j", "p", "e", "g" >>
\* ".aux"
Ext_aux == << ".", "a", "u", "x" >>
\* ".log"
Ext_log == << ".", "l", "o", "g" >>
\* ".out"
Ext_out == << ".", "o", "u", "t" >>
\* ".toc"
Ext_toc == << ".", "t", "o", "c" >>
\* ".gz"
Ext_gz == << ".", "g", "z" >>
\* ".synctex"
Ext_synctex == << ".", "s", "y", "n", "c", "t", "e", "x" >>
\* ".synctex.gz"
Ext_synctex_gz == << ".", "s", "y", "n", "c", "t", "e", "x", ".", "g", "z" >>
\* ".tmp"
Ext_tmp == << ".", "t", "m", "p" >>

\* File names of the trees tried.
\* "README.md"
N_README_md == << "R", "E", "A", "D", "M", "E", ".", "m", "d" >>
\* "README.log"
N_README_log == << "R", "E", "A", "D", "M", "E", ".", "l", "o", "g" >>
\* "a.py"
N_a_py == << "a", ".", "p", "y" >>
\* "b.AUX"
N_b_AUX == << "b", ".", "A", "U", "X" >>
\* "b.aux"
N_b_aux == << "b", ".", "a", "u", "x" >>
\* ".h"
N_dot_h == << ".", "h" >>
\* "c.py"
N_c_py == << "c", ".", "p", "y" >>
\* "m.pyc"
N_m_pyc == << "m", ".", "p", "y", "c" >>
\* "r.csv"
N_r_csv == << "r", ".", "c", "s", "v" >>
\* "f.pdf"
N_f_pdf == << "f", ".", "p", "d", "f" >>
\* "f.PNG"
N_f_PNG == << "f", ".", "P", "N", "G" >>
\* "f.png"
N_f_png == << "f", ".", "p", "n", "g" >>
\* "d.csv"
N_d_csv == << "d", ".", "c", "s", "v" >>

(***************************************************************************)
(* Paths, the project tree, archives, digests                              *)
(***************************************************************************)

\* str(path): the components joined by "/".
RECURSIVE PathStr(_)
PathStr(path) ==
    IF path = <<>> THEN <<>>
    ELSE IF Len(path) = 1 THEN path[1]
    ELSE path[1] \o <<"/">> \o PathStr(Tail(path))

ManifestPath == <<S_reports, S_checksums_SHA256_txt>>
DataManifestPath == <<S_reports, S_checksums_SHA256_data_txt>>

\* Files a tree of the model may hold besides the manifests, relative to ROOT.
SumsCandidates ==
    { <<S_main_pdf>>, <<N_README_log>>,
      <<S_scripts, N_a_py>>, <<S_scripts, N_b_AUX>>, <<S_scripts, N_b_aux>>,
      <<S_scripts, N_dot_h, N_c_py>>, <<S_scripts, S_pycache, N_m_pyc>>,
      <<S_scripts, S_DS_Store>>,
      <<S_reports, N_r_csv>>, <<S_figs, N_f_pdf>>, <<S_figs, N_f_png>>,
      <<S_data, N_d_csv>> }

\* The mandatory files of the archive builders.
MandatoryPdfs == {<<S_main_pdf>>, <<S_supplemental_pdf>>}

\* Files a tree handed to an archive builder may hold besides them.
PackCandidates ==
    { <<N_README_md>>, <<S_README_packaging_md>>, <<S_CITATION_cff>>,
      <<S_dist, S_CITATION_cff>>, <<S_dist, S_zenodo_json>>,
      <<S_dist, S_README_packaging_md>>,
      <<S_reports, N_r_csv>>,
      <<S_scripts, N_a_py>>, <<S_scripts, N_b_AUX>>,
      <<S_scripts, N_dot_h, N_c_py>>, <<S_scripts, S_pycache, N_m_pyc>>,
      <<S_scripts, S_DS_Store>>,
      <<S_figs, N_f_pdf>>, <<S_figs, N_f_PNG>>,
      <<S_data, N_d_csv>> }

\* The paths a tree of the model may hold, relative to ROOT.
Universe ==
    {ManifestPath, DataManifestPath} \cup SumsCandidates \cup MandatoryPdfs
        \cup PackCandidates

NoFile == [exists |-> FALSE, data |-> <<>>]
File(bytes) == [exists |-> TRUE, data |-> bytes]

EmptyTree == [p \in Universe |-> NoFile]

\* Path.is_file() / Path.exists() on a file path of the tree.
IsFile(tree, p) == p \in DOMAIN tree /\ tree[p].exists

\* Path.exists() on a directory: it holds a file (an empty directory behaves
\* as a missing one in every program here).
DirExists(tree, dir) ==
    \E p \in DOMAIN tree :
        tree[p].exists /\ Len(p) > Len(dir) /\ SubSeq(p, 1, Len(dir)) = dir

ArchiveNames == {"A.zip", "B.zip"}

NoArchive == [exists |-> FALSE, members |-> <<>>]
NoArchives == [a \in ArchiveNames |-> NoArchive]

HexDigits ==
    << "0", "1", "2", "3", "4", "5", "6", "7", "8", "9", "a", "b", "c", "d", "e", "f" >>

HexOfChar(c) == << HexDigits[(Ord(c) \div 16) + 1], HexDigits[(Ord(c) % 16) + 1] >>

\* hashlib.sha256(b).hexdigest().  The programs use one property of the hash:
\* different bytes give different digests (and a digest is a non-empty hex
\* string).  The stand-in is the injective hex encoding of the bytes after a
\* fixed first digit.
sha256_bytes(b) == <<"e">> \o Concat([i \in 1..Len(b) |-> HexOfChar(b[i])])

\* ZipFile.read(name) raises KeyError when no member has the name.
ZipHas(members, name) == \E i \in 1..Len(members) : members[i].name = name

\* ZipFile.read(name): the bytes of the member written last under the name.
ZipRead(members, name) ==
    members[MaxOf({i \in 1..Len(members) : members[i].name = name})].data

(***************************************************************************)
(* Manifest codec                                                          *)
(***************************************************************************)

\* "# SHA256 checksums (relative to plr-prl/)\n"
HeaderLine ==
    << "#", " ", "S", "H", "A", "2", "5", "6", " ",
       "c", "h", "e", "c", "k", "s", "u", "m", "s", " ",
       "(", "r", "e", "l", "a", "t", "i", "v", "e", " ", "t", "o", " ",
       "p", "l", "r", "-", "p", "r", "l", "/", ")", "\n" >>

\* f"{digest}  {rel}\n"
ManifestLine(digest, rel) == digest \o <<" ", " ">> \o rel \o <<"\n">>

\* The lines make_checksums.main writes for (rel, digest) pairs, in order.
ManifestText(entries) ==
    HeaderLine \o Concat([i \in 1..Len(entries) |->
                             ManifestLine(entries[i][2], entries[i][1])])

\* A plausible slip: a line is taken for a comment when "#" occurs anywhere.
IsCommentAnywhere(line) == \E i \in 1..Len(line) : line[i] = "#"

\* line.startswith("#")
IsComment(line) == StartsWith(line, <<"#">>)

\* verify_archive.load_manifest: the loop body on one line.
LoadLine(checksums, raw) ==
    LET line  == Strip(raw)
        parts == Split(line)
    IN  IF line = <<>> \/ IsComment(line) THEN checksums
        ELSE IF Len(parts) >= 2
             THEN DictSet(checksums, parts[Len(parts)], parts[1])
             ELSE checksums

RECURSIVE LoadLoop(_, _)
LoadLoop(checksums, lines) ==
    IF lines = <<>> THEN checksums
    ELSE LoadLoop(LoadLine(checksums, Head(lines)), Tail(lines))

load_manifest(lines) == LoadLoop(<<>>, lines)

\* "plr-prl/", the fixed top-level folder as the claims state it.
TopFolder == << "p", "l", "r", "-", "p", "r", "l", "/" >>

(***************************************************************************)
(* The programs at rest                                                    *)
(***************************************************************************)

McIdle ==
    [pc |-> "idle", include_data |-> FALSE, out |-> <<>>, walk |-> <<>>,
     files |-> <<>>, i |-> 0, text |-> <<>>, exit |-> -1, runs |-> 0]

PkIdle ==
    [pc |-> "idle", builder |-> "none", include_data |-> FALSE, out |-> "none",
     before |-> NoArchive, written |-> <<>>, previous |-> <<>>, exit |-> -1,
     runs |-> 0]

CodecIdle == [pc |-> "idle", entries |-> <<>>, text |-> <<>>, parsed |-> <<>>]

VfIdle ==
    [pc |-> "idle", argv |-> <<>>, archives |-> <<>>, k |-> 0, all_ok |-> TRUE,
     all_checksums |-> <<>>, j |-> 0, ok_all |-> TRUE,
     verified_count |-> 0, failed_count |-> 0, open |-> FALSE,
     report |-> <<>>, results |-> <<>>, exit |-> -1]

\* No archive is damaged.  badzip: the archive files that are no zip files;
\* corrupt: the <<archive, member name>> whose stored bytes fail the CRC check.
NoFaults == [badzip |-> {}, corrupt |-> {}]

CsIdle ==
    [pc |-> "idle", manifest |-> "missing", figs |-> <<>>, files |-> <<>>,
     out |-> "none", markdown |-> FALSE, i |-> 0, rows |-> <<>>,
     stdout |-> <<>>, out_csv |-> <<>>, stderr_md |-> <<>>, out_md |-> <<>>,
     handle |-> "none", exit |-> -1]

NoRepo ==
    [current |-> "none", branches |-> {}, heads |-> <<>>, work |-> {},
     untracked |-> {}, commits |-> 0, pushed |-> {}, prs |-> 0]

GrIdle ==
    [pc |-> "idle",
     args |-> [apply |-> FALSE, force |-> FALSE, push |-> FALSE, open_pr |-> FALSE,
               preserve_paths |-> FALSE, plan |-> <<>>],
     gh |-> FALSE, moves |-> <<>>, k |-> 0,
     moved_count |-> 0, skipped_count |-> 0, error_count |-> 0,
     applying |-> FALSE, summary |-> "none",
     repo |-> NoRepo, before |-> NoRepo, runs |-> 0, exit |-> -1]

(***************************************************************************)
(* make_checksums.py                                                       *)
(***************************************************************************)

ROOT_FILES ==
    {S_main_pdf, S_supplemental_pdf, S_manifest_yaml, S_Makefile, S_latexmkrc, S_plr_bib}

PathName(p) == p[Len(p)]

\* pathlib's PurePath.suffix: the name from its last dot on, unless that dot
\* is the first or the last character.
Suffix(name) ==
    LET dots == {i \in 1..Len(name) : name[i] = "."}
    IN  IF dots = {} THEN <<>>
        ELSE IF MaxOf(dots) > 1 /\ MaxOf(dots) < Len(name)
             THEN SubSeq(name, MaxOf(dots), Len(name))
             ELSE <<>>

extskip ==
    {Ext_aux, Ext_log, Ext_out, Ext_toc, Ext_gz, Ext_synctex, Ext_synctex_gz, Ext_tmp}

\* should_skip, lines 24-35.  The components of ROOT itself are taken not to
\* be named dist, .git or __pycache__.
should_skip(p) ==
    \/ \E n \in 1..Len(p) : p[n] \in {S_dist, S_dot_git, S_pycache}
    \/ StartsWith(PathName(p), S_DS_Store)
    \/ Suffix(PathName(p)) \in extskip

\* dir.rglob("*") filtered by is_file(): the files below dir.
FilesUnder(tree, dir) ==
    {p \in DOMAIN tree :
        tree[p].exists /\ Len(p) > Len(dir) /\ SubSeq(p, 1, Len(dir)) = dir}

\* gather, lines 40-43.
RootScope(tree) == {<<f>> : f \in {g \in ROOT_FILES : IsFile(tree, <<g>>)}}

\* gather, lines 45-47: ROOT.glob("README*").
ReadmeScope(tree) ==
    {p \in DOMAIN tree : tree[p].exists /\ Len(p) = 1 /\ StartsWith(p[1], S_README)}

\* gather, lines 49-57: scripts and reports, everything not skipped.
TreeScope(tree, dir) == {p \in FilesUnder(tree, <<dir>>) : ~should_skip(p)}

\* gather, lines 59-63: figs, rglob("*.pdf").
FigsScope(tree) ==
    {p \in FilesUnder(tree, <<S_figs>>) :
        EndsWith(PathName(p), Ext_pdf) /\ ~should_skip(p)}

\* gather, lines 65-68.
DataScope(tree, include_data) ==
    IF include_data THEN TreeScope(tree, S_data) ELSE {}

\* gather, lines 38-68: the list before it is sorted.  A set, a glob and a
\* directory walk give their elements in any order.
GatherWalks(tree, include_data) ==
    {r \o m \o s \o t \o f \o d :
        r \in AllOrders(RootScope(tree)),
        m \in AllOrders(ReadmeScope(tree)),
        s \in AllOrders(TreeScope(tree, S_scripts)),
        t \in AllOrders(TreeScope(tree, S_reports)),
        f \in AllOrders(FigsScope(tree)),
        d \in AllOrders(DataScope(tree, include_data))}

\* A slip: the list returned as walked.
AsWalked(files) == files

RECURSIVE SortByStr(_)
SortByStr(S) ==
    IF S = {} THEN <<>>
    ELSE LET least == CHOOSE x \in S :
                          \A y \in S \ {x} : StrLess(PathStr(x), PathStr(y))
         IN  <<least>> \o SortByStr(S \ {least})

\* gather, line 70: sorted(set(files), key=lambda x: str(x)).
SortedUnique(files) == SortByStr({files[n] : n \in 1..Len(files)})

\* sha256_of, lines 17-22: the digest of the bytes on disk.
sha256_of(bytes) == sha256_bytes(bytes)

\* What a read of the file being written may see: the text written so far is
\* buffered and reaches the disk when the buffer is flushed; the model takes
\* the flushes at line ends.
OnDisk(text) ==
    LET lines == ReadLines(text)
    IN  {Concat(SubSeq(lines, 1, n)) : n \in 0..Len(lines)}

MaxRuns == 2

\* A run starts: the command line.
McRun ==
    /\ mc.pc \in {"idle", "done"}
    /\ mc.runs < MaxRuns
    /\ \E inc \in BOOLEAN, out \in {ManifestPath, DataManifestPath} :
          mc' = [McIdle EXCEPT !.pc = "start", !.include_data = inc, !.out = out,
                               !.runs = mc.runs + 1]
    /\ UNCHANGED <<fs, zips, pk, vf, codec, faults, cs, gr>>

\* main, lines 79-82, and gather.
McGather ==
    /\ mc.pc = "start"
    /\ \E walk \in GatherWalks(fs, mc.include_data) :
          LET files == SortedUnique(walk)
          IN  mc' = IF files = <<>>
                    THEN [mc EXCEPT !.pc = "done", !.exit = 1, !.walk = walk]
                    ELSE [mc EXCEPT !.pc = "gathered", !.walk = walk, !.files = files]
    /\ UNCHANGED <<fs, zips, pk, vf, codec, faults, cs, gr>>

\* main, lines 84-88: open(outpath, "w") and the header.
McOpen ==
    /\ mc.pc = "gathered"
    /\ mc' = [mc EXCEPT !.pc = "writing", !.i = 0, !.text = HeaderLine]
    /\ fs' = [fs EXCEPT ![mc.out] = File(<<>>)]
    /\ UNCHANGED <<zips, pk, vf, codec, faults, cs, gr>>

\* main, lines 89-92: one file hashed, one line written.
McWriteLine ==
    /\ mc.pc = "writing"
    /\ mc.i < Len(mc.files)
    /\ LET p == mc.files[mc.i + 1]
       IN  \E bytes \in (IF p = mc.out THEN OnDisk(mc.text) ELSE {fs[p].data}) :
              mc' = [mc EXCEPT !.i = @ + 1,
                               !.text = @ \o ManifestLine(sha256_of(bytes), PathStr(p))]
    /\ UNCHANGED <<fs, zips, pk, vf, codec, faults, cs, gr>>

\* main, lines 87 and 94: the file closed, all of the text on disk.
McClose ==
    /\ mc.pc = "writing"
    /\ mc.i = Len(mc.files)
    /\ mc' = [mc EXCEPT !.pc = "done", !.exit = 0]
    /\ fs' = [fs EXCEPT ![mc.out] = File(mc.text)]
    /\ UNCHANGED <<zips, pk, vf, codec, faults, cs, gr>>

McNext == McRun \/ McGather \/ McOpen \/ McWriteLine \/ McClose

MaxFiles == 2

\* Trees of at most MaxFiles files, each file holding the same one byte.
SmallTrees(candidates, n) ==
    {[p \in Universe |-> IF p \in S THEN File(<<"x">>) ELSE NoFile] :
        S \in {T \in SUBSET candidates : Cardinality(T) <= n}}

McInit ==
    /\ fs \in SmallTrees(SumsCandidates, MaxFiles)
    /\ zips = NoArchives
    /\ mc = McIdle
    /\ faults = NoFaults
    /\ cs = CsIdle
    /\ gr = GrIdle
    /\ pk = PkIdle
    /\ vf = VfIdle
    /\ codec = CodecIdle

SpecSums == McInit /\ [][McNext]_vars

\* C6: when a run has produced its manifest, every entry's digest is the
\* SHA-256 of the bytes of the file at that path as it then exists; in every
\* run, also one that finds its own output file from the run before.
C6_DigestOfBytes ==
    (mc.pc = "done" /\ mc.exit = 0)
    => LET stated == AsMap(load_manifest(ReadLines(fs[mc.out].data)))
       IN  \A n \in 1..Len(mc.files) :
              /\ PathStr(mc.files[n]) \in DOMAIN stated
              /\ stated[PathStr(mc.files[n])] = sha256_bytes(fs[mc.files[n]].data)

\* C8: gather returns its files strictly ascending by the string form of the
\* path, whatever the order of the walk, and the manifest lines are written
\* in that order.
C8_SortedGather ==
    (mc.pc \in {"gathered", "writing", "done"} /\ mc.files # <<>>)
    => /\ {mc.files[n] : n \in 1..Len(mc.files)} = {mc.walk[n] : n \in 1..Len(mc.walk)}
       /\ \A m, n \in 1..Len(mc.files) :
             m < n => StrLess(PathStr(mc.files[m]), PathStr(mc.files[n]))
       /\ mc.pc = "done" =>
             LET lines == ReadLines(mc.text)
             IN  /\ Len(lines) = Len(mc.files) + 1
                 /\ \A n \in 1..Len(mc.files) :
                       LET parts == Split(lines[n + 1])
                       IN  parts[Len(parts)] = PathStr(mc.files[n])

\* A manifest has been written whose files were walked in another order than
\* the sorted one.
C8_Witness ==
    /\ mc.pc = "done"
    /\ Len(mc.files) >= 2
    /\ mc.walk # mc.files

\* The exclusion rules of the manifest discoverer as the claim states them:
\* a component that is one of its excluded directories (the hidden .git, the
\* cache __pycache__, dist), its excluded file name, one of its excluded
\* extensions compared case-insensitively.
Excluded(p) ==
    \/ \E n \in 1..(Len(p) - 1) : p[n] \in {S_dot_git, S_pycache, S_dist}
    \/ StartsWith(PathName(p), S_DS_Store)
    \/ LowerStr(Suffix(PathName(p))) \in extskip

\* C9: no file that matches an exclusion rule is in the output of gather,
\* whichever scope it comes from.
C9_NoExcludedGathered ==
    \A n \in 1..Len(mc.files) : ~Excluded(mc.files[n])

(***************************************************************************)
(* scripts/zenodo_pack.py and scripts/prereg_pack.py                       *)
(***************************************************************************)

Builders == {"zenodo_pack", "prereg_pack"}

\* The root build files, in the order of the list both builders walk.
RootBuildFiles ==
    << S_main_pdf, S_supplemental_pdf, S_manifest_yaml, S_Makefile, S_latexmkrc,
       S_plr_bib >>

\* A slip: the check for the mandatory files left out.
NoneMissing(tree) == <<>>

\* zenodo_pack line 63, prereg_pack line 76: the mandatory files not there.
MissingPdfs(tree) ==
    SelectSeq(<<S_main_pdf, S_supplemental_pdf>>, LAMBDA f : ~IsFile(tree, <<f>>))

\* A slip: the member named by the file name alone.
ArcOfName(src) == PathStr(<<S_plr_prl, PathName(src)>>)

\* str(relroot / full.relative_to(ROOT)), relroot = "plr-prl".
ArcOf(src) == PathStr(<<S_plr_prl>> \o src)

\* zf.write(src, arcname): what is written, from which file.
Written(src, name) == [src |-> src, name |-> name]

SeqMap(Op(_), seq) == [n \in 1..Len(seq) |-> Op(seq[n])]

\* The root build files that exist, as members (zenodo_pack lines 70-73,
\* prereg_pack lines 72 and 85-86).
RootFileWrites(tree) ==
    SeqMap(LAMBDA f : Written(<<f>>, PathStr(<<S_plr_prl, f>>)),
           SelectSeq(RootBuildFiles, LAMBDA f : IsFile(tree, <<f>>)))

\* ROOT.glob("README*"), in any order; zenodo_pack (lines 75-77) leaves
\* README_packaging.md out, prereg_pack (lines 73-74, 85-86) does not.
ReadmeWrites(builder, tree) ==
    LET found == {p \in ReadmeScope(tree) :
                     builder = "prereg_pack" \/ p[1] # S_README_packaging_md}
    IN  {SeqMap(LAMBDA p : Written(p, PathStr(<<S_plr_prl, p[1]>>)), o) :
            o \in AllOrders(found)}

\* zenodo_pack lines 78-89, prereg_pack lines 88-96: CITATION.cff from dist/
\* or else from the root, then the other metadata files of dist/.
MetadataWrites(tree) ==
    LET citation ==
            IF IsFile(tree, <<S_dist, S_CITATION_cff>>)
            THEN <<Written(<<S_dist, S_CITATION_cff>>, PathStr(<<S_plr_prl, S_CITATION_cff>>))>>
            ELSE IF IsFile(tree, <<S_CITATION_cff>>)
            THEN <<Written(<<S_CITATION_cff>>, PathStr(<<S_plr_prl, S_CITATION_cff>>))>>
            ELSE <<>>
        others ==
            SelectSeq(<<S_zenodo_json, S_README_packaging_md, S_FILE_LISTING_txt>>,
                      LAMBDA f : IsFile(tree, <<S_dist, f>>))
    IN  citation \o
        SeqMap(LAMBDA f : Written(<<S_dist, f>>, PathStr(<<S_plr_prl, f>>)), others)

\* any(fn.lower().endswith(ext.lower()) for ext in exclude_ext)
HasExcludedExt(name, exclude_ext) ==
    \E ext \in exclude_ext : EndsWith(LowerStr(name), LowerStr(ext))

\* zenodo_pack.add_dir, lines 38-48: os.walk with the hidden and cache
\* directories below base pruned.
ZenodoIncludes(p, base, exclude_ext, exclude_names) ==
    /\ \A n \in (Len(base) + 1)..(Len(p) - 1) : p[n] # S_pycache /\ p[n][1] # "."
    /\ PathName(p) \notin exclude_names
    /\ ~HasExcludedExt(PathName(p), exclude_ext)

\* prereg_pack.add_dir, lines 42-57: rglob("*"), a file skipped when any of
\* its components is hidden or a cache directory.  The components of ROOT
\* itself are taken not to be hidden.
PreregIncludes(p, base, exclude_ext, exclude_names) ==
    /\ \A n \in 1..Len(p) : p[n] # S_pycache /\ p[n][1] # "."
    /\ PathName(p) \notin exclude_names
    /\ ~HasExcludedExt(PathName(p), exclude_ext)

\* The files add_dir writes for base.
AddDirFiles(builder, tree, base, exclude_ext, exclude_names) ==
    {p \in FilesUnder(tree, base) :
        IF builder = "zenodo_pack"
        THEN ZenodoIncludes(p, base, exclude_ext, exclude_names)
        ELSE PreregIncludes(p, base, exclude_ext, exclude_names)}

\* add_dir: the files written in the order of the directory walk (any order:
\* the included files of a tree of the model lie in one directory).
AddDirWrites(builder, tree, base, exclude_ext, exclude_names) ==
    {SeqMap(LAMBDA p : Written(p, ArcOf(p)), o) :
        o \in AllOrders(AddDirFiles(builder, tree, base, exclude_ext, exclude_names))}

\* zenodo_pack lines 90-104, prereg_pack lines 98-105.
SubtreeWrites(builder, tree, include_data) ==
    {r \o s \o f \o d :
        r \in AddDirWrites(builder, tree, <<S_reports>>, {}, {}),
        s \in AddDirWrites(builder, tree, <<S_scripts>>, {}, {}),
        f \in AddDirWrites(builder, tree, <<S_figs>>, {Ext_png, Ext_jpg, Ext_jpeg}, {}),
        d \in IF include_data
              THEN AddDirWrites(builder, tree, <<S_data>>, {}, {})
              ELSE {<<>>}}

\* ZipFile.write for each of ws: the members appended to the archive.
ZipWrite(archive, ws) ==
    [archive EXCEPT !.members =
        @ \o SeqMap(LAMBDA w : [name |-> w.name, data |-> fs[w.src].data], ws)]

\* The command line: builder, --include-data, --out with an explicit tag.
PkRun ==
    /\ pk.pc = "idle"
    /\ \E b \in Builders, inc \in BOOLEAN :
          pk' = [PkIdle EXCEPT !.pc = "start", !.builder = b, !.include_data = inc,
                               !.out = "A.zip", !.before = zips["A.zip"], !.runs = 1]
    /\ UNCHANGED <<fs, zips, mc, vf, codec, faults, cs, gr>>

\* The same command line again, after a run that wrote its archive.
PkRerun ==
    /\ pk.pc = "done"
    /\ pk.exit = 0
    /\ pk.runs < MaxRuns
    /\ pk' = [pk EXCEPT !.pc = "start", !.before = zips[pk.out],
                        !.previous = pk.written, !.written = <<>>, !.exit = -1,
                        !.runs = @ + 1]
    /\ UNCHANGED <<fs, zips, mc, vf, codec, faults, cs, gr>>

\* zenodo_pack lines 63-66, prereg_pack lines 76-79.
PkMissing ==
    /\ pk.pc = "start"
    /\ MissingPdfs(fs) # <<>>
    /\ pk' = [pk EXCEPT !.pc = "done", !.exit = 1]
    /\ UNCHANGED <<fs, zips, mc, vf, codec, faults, cs, gr>>

\* zenodo_pack line 68, prereg_pack line 81: ZipFile(out, "w").
PkOpen ==
    /\ pk.pc = "start"
    /\ MissingPdfs(fs) = <<>>
    /\ pk' = [pk EXCEPT !.pc = "roots"]
    /\ zips' = [zips EXCEPT ![pk.out] = [exists |-> TRUE, members |-> <<>>]]
    /\ UNCHANGED <<fs, mc, vf, codec, faults, cs, gr>>

PkWrites(ws, pc) ==
    /\ pk' = [pk EXCEPT !.pc = pc, !.written = @ \o ws]
    /\ zips' = [zips EXCEPT ![pk.out] = ZipWrite(@, ws)]
    /\ UNCHANGED <<fs, mc, vf, codec, faults, cs, gr>>

\* zenodo_pack lines 69-77, prereg_pack lines 84-86.
PkRootFiles ==
    /\ pk.pc = "roots"
    /\ \E rs \in ReadmeWrites(pk.builder, fs) :
          PkWrites(RootFileWrites(fs) \o rs, "metadata")

\* zenodo_pack lines 78-89, prereg_pack lines 88-96.
PkMetadata ==
    /\ pk.pc = "metadata"
    /\ PkWrites(MetadataWrites(fs), "subtrees")

\* zenodo_pack lines 90-104, prereg_pack lines 98-105.
PkSubtrees ==
    /\ pk.pc = "subtrees"
    /\ \E ws \in SubtreeWrites(pk.builder, fs, pk.include_data) :
          PkWrites(ws, "close")

\* The with block left, zenodo_pack line 106, prereg_pack line 107.
PkClose ==
    /\ pk.pc = "close"
    /\ pk' = [pk EXCEPT !.pc = "done", !.exit = 0]
    /\ UNCHANGED <<fs, zips, mc, vf, codec, faults, cs, gr>>

PkNext ==
    \/ PkRun
    \/ PkRerun
    \/ PkMissing
    \/ PkOpen
    \/ PkRootFiles
    \/ PkMetadata
    \/ PkSubtrees
    \/ PkClose

\* An archive left at the target path by an earlier build.
OldArchive ==
    [exists |-> TRUE,
     members |-> <<[name |-> PathStr(<<S_plr_prl, S_main_pdf>>), data |-> <<"y">>]>>]

\* Trees with or without the mandatory files and at most MaxFiles others;
\* with a mandatory file missing, the target path may hold an old archive.
PkInit ==
    /\ \E pdfs \in SUBSET MandatoryPdfs, t \in SmallTrees(PackCandidates, MaxFiles) :
          fs = [p \in Universe |-> IF p \in pdfs THEN File(<<"x">>) ELSE t[p]]
    /\ \E old \in {NoArchive, OldArchive} :
          /\ old = OldArchive => ~(\A p \in MandatoryPdfs : fs[p].exists)
          /\ zips = [a \in ArchiveNames |-> IF a = "A.zip" THEN old ELSE NoArchive]
    /\ mc = McIdle
    /\ faults = NoFaults
    /\ cs = CsIdle
    /\ gr = GrIdle
    /\ pk = PkIdle
    /\ vf = VfIdle
    /\ codec = CodecIdle

SpecPack == PkInit /\ [][PkNext]_vars

MandatoryMissing == \E p \in MandatoryPdfs : ~IsFile(fs, p)

\* C2: with a mandatory file absent the builder ends with a nonzero status
\* without ever opening the archive: the target path holds what it held
\* before the run (nothing, or the old archive unchanged).
C2_NoPartialArchive ==
    (pk.pc # "idle" /\ MandatoryMissing)
    => /\ zips[pk.out] = pk.before
       /\ pk.written = <<>>
       /\ pk.pc \in {"start", "done"}
       /\ pk.pc = "done" => pk.exit = 1

\* A build stopped on a missing PDF and the old archive at the target path is
\* still there.
C2_Witness ==
    /\ pk.pc = "done"
    /\ pk.exit = 1
    /\ MandatoryMissing
    /\ zips[pk.out] = OldArchive

\* C7: a second run with the same command line over the unchanged tree writes
\* the same sequence of members as the first.
C7_SameMembersTwice ==
    (pk.pc = "done" /\ pk.exit = 0 /\ pk.runs >= 2) => pk.written = pk.previous

\* C10 as claimed: every member is written at "plr-prl/" + the source file's
\* path relative to the project root.
C10_ArcIsRelativePath ==
    \A n \in 1..Len(pk.written) :
        pk.written[n].name = TopFolder \o PathStr(pk.written[n].src)

\* C10 amended: every member is written under "plr-prl/": a metadata file
\* taken from dist/ at "plr-prl/" + its file name, every other file at
\* "plr-prl/" + its path relative to the project root.
C10_ArcUnderTopFolder ==
    \A n \in 1..Len(pk.written) :
        LET w == pk.written[n]
        IN  w.name = TopFolder \o (IF w.src[1] = S_dist THEN PathName(w.src)
                                   ELSE PathStr(w.src))

\* A finished archive holds a root file, a metadata file from dist/ and a file
\* of a subtree.
C10_Witness ==
    /\ pk.pc = "done"
    /\ pk.exit = 0
    /\ \E n \in 1..Len(pk.written) : pk.written[n].src[1] = S_dist
    /\ \E n \in 1..Len(pk.written) :
          Len(pk.written[n].src) = 2 /\ pk.written[n].src[1] # S_dist

\* The exclusion rules of add_dir (both builders): no member from a subtree
\* lies below a hidden or cache directory, none has an excluded extension
\* in any letter case.
AddDirExcludes ==
    \A n \in 1..Len(pk.written) :
        LET src == pk.written[n].src
        IN  (Len(src) >= 2 /\ src[1] # S_dist)
            => /\ \A m \in 2..(Len(src) - 1) : src[m] # S_pycache /\ src[m][1] # "."
               /\ src[1] = S_figs =>
                     LowerStr(Suffix(PathName(src))) \notin {Ext_png, Ext_jpg, Ext_jpeg}

\* C16: an archive holds no two members with the same archive path, whatever
\* the tree; a metadata file present at the root and under dist/ is written
\* once.
C16_NoDuplicateMembers ==
    \A m, n \in 1..Len(pk.written) :
        m # n => pk.written[m].name # pk.written[n].name

\* zenodo_pack alone writes every archive path once (it leaves the root
\* README_packaging.md out of its README* members).
ZenodoNoDuplicates ==
    pk.builder = "zenodo_pack"
    => \A m, n \in 1..Len(pk.written) :
          m # n => pk.written[m].name # pk.written[n].name

(***************************************************************************)
(* scripts/verify_archive.py                                               *)
(***************************************************************************)

\* The glob pattern among the arguments tried ("dist/*.zip").
GlobPattern == "*.zip"

\* glob.glob(arg): the existing files the argument matches, in the order the
\* directory listing gives them (any order).
GlobResults(arg) ==
    IF arg = GlobPattern
    THEN AllOrders({a \in ArchiveNames : zips[a].exists}) \ {<<>>}
    ELSE IF arg \in ArchiveNames /\ zips[arg].exists THEN {<<arg>>} ELSE {}

\* main, lines 100-108: every argument is replaced by its matches, or kept
\* as it is when nothing matches.
RECURSIVE Expansions(_)
Expansions(args) ==
    IF args = <<>> THEN {<<>>}
    ELSE LET hs == IF GlobResults(Head(args)) = {} THEN {<<Head(args)>>}
                   ELSE GlobResults(Head(args))
         IN  {h \o t : h \in hs, t \in Expansions(Tail(args))}

\* verify_archive, lines 43-49: the manifests found, in load order.
ManifestFiles(tree) ==
    IF DirExists(tree, <<S_reports>>)
    THEN SelectSeq(<<ManifestPath, DataManifestPath>>, LAMBDA m : IsFile(tree, m))
    ELSE <<>>

\* verify_archive, lines 56-59: the manifests combined, a later one over an
\* earlier one.
RECURSIVE Combine(_, _, _)
Combine(tree, manfiles, all) ==
    IF manfiles = <<>> THEN all
    ELSE Combine(tree, Tail(manfiles),
                 DictUpdate(all, load_manifest(ReadLines(tree[Head(manfiles)].data))))

\* A slip: the archive name without the top-level folder.
ArcNameBare(rel) == rel

\* str(pathlib.Path("plr-prl") / rel), rel a relative path as written by
\* make_checksums.
ArcName(rel) == S_plr_prl \o <<"/">> \o rel

VfStart(argv) == [VfIdle EXCEPT !.pc = "start", !.argv = argv, !.exit = -1]

\* main, lines 95-97: no argument.
VfUsage ==
    /\ vf.pc = "start"
    /\ Len(vf.argv) = 0
    /\ vf' = [vf EXCEPT !.pc = "done", !.exit = 1]
    /\ UNCHANGED <<fs, zips, mc, pk, codec, faults, cs, gr>>

\* main, lines 99-114: the arguments expanded.
VfExpand ==
    /\ vf.pc = "start"
    /\ Len(vf.argv) > 0
    /\ \E as \in Expansions(vf.argv) :
          vf' = [vf EXCEPT !.pc = "loop", !.archives = as, !.k = 1, !.all_ok = TRUE]
    /\ UNCHANGED <<fs, zips, mc, pk, codec, faults, cs, gr>>

\* One archive done with verdict ok: main, line 118, and on to the next.
VfReturned(ok, report, verified, failed) ==
    [vf EXCEPT !.pc = "loop",
               !.results = Append(@, [archive |-> vf.archives[vf.k], ok |-> ok,
                                      report |-> report,
                                      verified |-> verified, failed |-> failed]),
               !.all_ok = (vf.all_ok /\ ok),
               !.k = @ + 1,
               !.open = FALSE]

\* A slip: all_ok = all_ok and verify_archive(archive), which skips the
\* archives after the first failure.
VfHasNextShortCircuit == vf.pc = "loop" /\ vf.k <= Len(vf.archives) /\ vf.all_ok

\* main, line 115: the loop has an archive left.
VfHasNext == vf.pc = "loop" /\ vf.k <= Len(vf.archives)

\* verify_archive, lines 37-40: the archive is no file.
VfNotFound ==
    /\ VfHasNext
    /\ ~(vf.archives[vf.k] \in ArchiveNames /\ zips[vf.archives[vf.k]].exists)
    /\ vf' = VfReturned(FALSE, <<[tag |-> "not found", arc |-> <<>>]>>, 0, 0)
    /\ UNCHANGED <<fs, zips, mc, pk, codec, faults, cs, gr>>

\* verify_archive, lines 42-53: no manifest.
VfNoManifest ==
    /\ VfHasNext
    /\ vf.archives[vf.k] \in ArchiveNames /\ zips[vf.archives[vf.k]].exists
    /\ ManifestFiles(fs) = <<>>
    /\ vf' = VfReturned(FALSE, <<[tag |-> "no manifest", arc |-> <<>>]>>, 0, 0)
    /\ UNCHANGED <<fs, zips, mc, pk, codec, faults, cs, gr>>

\* verify_archive, lines 55-62: the archive file is no zip file.
\* zipfile.ZipFile raises BadZipFile (and closes the file it opened); nothing
\* in verify_archive or main catches it: the interpreter prints a traceback
\* and the process ends with status 1.
VfBadZip ==
    /\ VfHasNext
    /\ vf.archives[vf.k] \in ArchiveNames /\ zips[vf.archives[vf.k]].exists
    /\ ManifestFiles(fs) # <<>>
    /\ vf.archives[vf.k] \in faults.badzip
    /\ vf' = [vf EXCEPT !.pc = "raised", !.exit = 1,
                        !.all_checksums = Combine(fs, ManifestFiles(fs), <<>>)]
    /\ UNCHANGED <<fs, zips, mc, pk, codec, faults, cs, gr>>

\* verify_archive, lines 55-65: manifests combined, archive opened.
VfOpen ==
    /\ VfHasNext
    /\ vf.archives[vf.k] \in ArchiveNames /\ zips[vf.archives[vf.k]].exists
    /\ ManifestFiles(fs) # <<>>
    /\ vf.archives[vf.k] \notin faults.badzip
    /\ vf' = [vf EXCEPT !.pc = "scan",
                        !.all_checksums = Combine(fs, ManifestFiles(fs), <<>>),
                        !.j = 0, !.ok_all = TRUE, !.open = TRUE,
                        !.verified_count = 0, !.failed_count = 0, !.report = <<>>]
    /\ UNCHANGED <<fs, zips, mc, pk, codec, faults, cs, gr>>

\* A slip: the scan stops at the first failure.
VfScanningUntilFailure == vf.pc = "scan" /\ vf.j < Len(vf.all_checksums) /\ vf.ok_all

\* verify_archive, line 67: the scan has an entry left.
VfScanning == vf.pc = "scan" /\ vf.j < Len(vf.all_checksums)

\* zf.read(arcname) on a member that is there but fails to read (bad CRC,
\* unsupported compression, encrypted).
ReadFails(archive, arcname) ==
    /\ ZipHas(zips[archive].members, arcname)
    /\ <<archive, arcname>> \in faults.corrupt

\* verify_archive, lines 68-71: zf.read raises an error that is no KeyError.
\* The except clause does not match; the error leaves verify_archive before
\* zf.close() of line 84 and leaves main: traceback, status 1.
VfBadRead ==
    /\ VfScanning
    /\ ReadFails(vf.archives[vf.k], ArcName(vf.all_checksums[vf.j + 1][1]))
    /\ vf' = [vf EXCEPT !.pc = "raised", !.exit = 1]
    /\ UNCHANGED <<fs, zips, mc, pk, codec, faults, cs, gr>>

\* verify_archive, lines 67-83: one entry of the combined manifest.
VfEntry ==
    /\ VfScanning
    /\ ~ReadFails(vf.archives[vf.k], ArcName(vf.all_checksums[vf.j + 1][1]))
    /\ LET rel     == vf.all_checksums[vf.j + 1][1]
           digest  == vf.all_checksums[vf.j + 1][2]
           arcname == ArcName(rel)
           members == zips[vf.archives[vf.k]].members
       IN  IF ~ZipHas(members, arcname)
           THEN vf' = [vf EXCEPT !.j = @ + 1, !.ok_all = FALSE,
                                 !.failed_count = @ + 1,
                                 !.report = Append(@, [tag |-> "missing", arc |-> arcname])]
           ELSE IF sha256_bytes(ZipRead(members, arcname)) # digest
           THEN vf' = [vf EXCEPT !.j = @ + 1, !.ok_all = FALSE,
                                 !.failed_count = @ + 1,
                                 !.report = Append(@, [tag |-> "mismatch", arc |-> arcname])]
           ELSE vf' = [vf EXCEPT !.j = @ + 1,
                                 !.verified_count = @ + 1,
                                 !.report = Append(@, [tag |-> "ok", arc |-> arcname])]
    /\ UNCHANGED <<fs, zips, mc, pk, codec, faults, cs, gr>>

\* verify_archive, lines 84-92, and main, line 118.
VfClose ==
    /\ vf.pc = "scan"
    /\ ~VfScanning
    /\ vf' = VfReturned(vf.ok_all, vf.report, vf.verified_count, vf.failed_count)
    /\ UNCHANGED <<fs, zips, mc, pk, codec, faults, cs, gr>>

\* main, lines 120-125.
VfExit ==
    /\ vf.pc = "loop"
    /\ ~VfHasNext
    /\ vf' = [vf EXCEPT !.pc = "done", !.exit = IF vf.all_ok THEN 0 ELSE 1]
    /\ UNCHANGED <<fs, zips, mc, pk, codec, faults, cs, gr>>

VfNext ==
    \/ VfUsage
    \/ VfExpand
    \/ VfNotFound
    \/ VfNoManifest
    \/ VfOpen
    \/ VfEntry
    \/ VfClose
    \/ VfExit

(***************************************************************************)
(* The verifier on manifests and archives of any content.                  *)
(***************************************************************************)

MaxLines == 2
MaxMembers == 2
MaxArgs == 2

\* Manifest paths and member bytes tried.
RelNames == {<<"a">>, <<"b">>}
Blobs == {<<"x">>, <<"y">>}

SeqsUpTo(S, n) == UNION {[1..m -> S] : m \in 0..n}

\* Manifest files: any lines over the paths and the digests of the blobs,
\* a path possibly listed twice.
ManifestTexts(n) ==
    {ManifestText(e) : e \in SeqsUpTo(RelNames \X {sha256_bytes(b) : b \in Blobs}, n)}

\* Archives: any members, a name possibly written twice.
MemberLists(n) ==
    SeqsUpTo([name : {S_plr_prl \o <<"/">> \o r : r \in RelNames}, data : Blobs], n)

\* One archive, manifests and members of any content.
VfInitOne ==
    /\ \E m1 \in {NoFile} \cup {File(t) : t \in ManifestTexts(MaxLines)},
          m2 \in {NoFile} \cup {File(t) : t \in ManifestTexts(1)} :
          fs = [p \in Universe |->
                   IF p = ManifestPath THEN m1
                   ELSE IF p = DataManifestPath THEN m2 ELSE NoFile]
    /\ \E ms \in MemberLists(MaxMembers) :
          zips = [a \in ArchiveNames |->
                     IF a = "A.zip" THEN [exists |-> TRUE, members |-> ms]
                     ELSE NoArchive]
    /\ vf = VfStart(<<"A.zip">>)

\* Several arguments, one manifest entry, each archive missing, good or bad.
VfInitMany ==
    /\ fs = [p \in Universe |->
                IF p = ManifestPath
                THEN File(ManifestText(<< <<(<<"a">>), sha256_bytes(<<"x">>)>> >>))
                ELSE NoFile]
    /\ zips \in [ArchiveNames ->
                    {NoArchive} \cup {[exists |-> TRUE, members |-> ms] :
                                         ms \in MemberLists(1)}]
    /\ \E argv \in SeqsUpTo(ArchiveNames \cup {GlobPattern}, MaxArgs) :
          vf = VfStart(argv)

VfInit ==
    /\ VfInitOne \/ VfInitMany
    /\ mc = McIdle
    /\ faults = NoFaults
    /\ cs = CsIdle
    /\ gr = GrIdle
    /\ pk = PkIdle
    /\ codec = CodecIdle

SpecVerify == VfInit /\ [][VfNext]_vars

\* The mapping a manifest file states (empty when the file is missing).
Stated(m) ==
    IF IsFile(fs, m) THEN AsMap(load_manifest(ReadLines(fs[m].data))) ELSE <<>>

\* The union of the manifests: one digest per path, the data manifest's
\* (loaded later) where both list the path.
Union ==
    LET first == Stated(ManifestPath)
        later == Stated(DataManifestPath)
    IN  [rel \in DOMAIN first \cup DOMAIN later |->
            IF rel \in DOMAIN later THEN later[rel] ELSE first[rel]]

\* The archive has a member at "plr-prl/" + rel whose bytes hash to digest.
Matches(a, rel, digest) ==
    /\ ZipHas(zips[a].members, TopFolder \o rel)
    /\ sha256_bytes(ZipRead(zips[a].members, TopFolder \o rel)) = digest

ManifestFound == IsFile(fs, ManifestPath) \/ IsFile(fs, DataManifestPath)

ArchiveIsFile(a) == a \in ArchiveNames /\ zips[a].exists

\* C1: for an archive that exists and manifests found, verify_archive returns
\* success iff every entry of the union of the manifests has its member under
\* plr-prl/ with the digest the manifest states.
C1_VerifyIff ==
    \A i \in 1..Len(vf.results) :
        LET r == vf.results[i]
            u == Union
        IN  (ArchiveIsFile(r.archive) /\ ManifestFound)
            => (r.ok <=> \A rel \in DOMAIN u : Matches(r.archive, rel, u[rel]))

\* An archive passed against two manifests that disagree on a path.
C1_Witness ==
    /\ Len(vf.results) = 1
    /\ vf.results[1].ok
    /\ Cardinality(DOMAIN Union) = 2
    /\ \E rel \in DOMAIN Stated(ManifestPath) \cap DOMAIN Stated(DataManifestPath) :
          Stated(ManifestPath)[rel] # Stated(DataManifestPath)[rel]

Passes(a) ==
    /\ ArchiveIsFile(a)
    /\ ManifestFound
    /\ LET u == Union IN \A rel \in DOMAIN u : Matches(a, rel, u[rel])

\* The archives the arguments list: an argument that matches files stands for
\* them, any other for itself.
Listed ==
    UNION {IF vf.argv[n] = GlobPattern /\ \E a \in ArchiveNames : zips[a].exists
           THEN {a \in ArchiveNames : zips[a].exists}
           ELSE {vf.argv[n]} : n \in 1..Len(vf.argv)}

VfFaultyNext ==
    \/ VfNext
    \/ VfBadZip
    \/ VfBadRead

\* The damage an archive list may carry: any existing archive may be no zip
\* file, any member of a zip may fail to read.
FaultSets(archives) ==
    LET existing == {a \in ArchiveNames : archives[a].exists}
        MembersOf(as) ==
            UNION {{<<a, archives[a].members[n].name>> :
                       n \in 1..Len(archives[a].members)} : a \in as}
    IN  UNION {{[badzip |-> bad, corrupt |-> cor] :
                   cor \in SUBSET MembersOf(existing \ bad)} :
               bad \in SUBSET existing}

\* Several arguments, a manifest of one or two entries or none, archives
\* missing, sound or damaged.
VfInitFaulty ==
    /\ \E m \in {NoFile,
                  File(ManifestText(<< <<(<<"a">>), sha256_bytes(<<"x">>)>> >>)),
                  File(ManifestText(<< <<(<<"a">>), sha256_bytes(<<"x">>)>>,
                                       <<(<<"b">>), sha256_bytes(<<"y">>)>> >>))} :
          fs = [p \in Universe |-> IF p = ManifestPath THEN m ELSE NoFile]
    /\ zips \in [ArchiveNames ->
                    {NoArchive} \cup {[exists |-> TRUE, members |-> ms] :
                                         ms \in MemberLists(1)}]
    /\ faults \in FaultSets(zips)
    /\ \E argv \in SeqsUpTo(ArchiveNames \cup {GlobPattern}, MaxArgs) :
          vf = VfStart(argv)
    /\ mc = McIdle
    /\ pk = PkIdle
    /\ codec = CodecIdle
    /\ cs = CsIdle
    /\ gr = GrIdle

SpecFaulty == VfInitFaulty /\ [][VfFaultyNext]_vars

\* C11: no failure leaves a command as an uncaught exception: a run that has
\* ended has ended in main's exit, after its [ok] or [fail] line, with status
\* 0 or 1; here for verify_archive and an archive file that is no zip file.
C11_EndsWithStatus ==
    vf.pc \in {"done", "raised"} => (vf.pc = "done" /\ vf.exit \in {0, 1})

\* C15: the zip handle verify_archive opens is closed whenever verify_archive
\* is left, by return or by an error of an entry read.
C15_HandleClosed ==
    vf.pc \in {"loop", "done", "raised"} => ~vf.open

\* As long as no read fails the handle is closed on every return.
HandleClosedOnReturn ==
    vf.pc \in {"loop", "done"} => ~vf.open

(***************************************************************************)
(* Manifest, archive and verification in a row over one tree:              *)
(* make_checksums.py, then scripts/zenodo_pack.py, then verify_archive.py  *)
(***************************************************************************)

\* Files the tree may hold besides the two mandatory PDFs.
ChainCandidates ==
    { <<N_README_md>>, <<S_README_packaging_md>>,
      <<S_dist, S_README_packaging_md>>,
      <<S_scripts, N_a_py>>, <<S_scripts, N_dot_h, N_c_py>>,
      <<S_reports, N_r_csv>>, <<S_figs, N_f_pdf>> }

\* make_checksums.py without --include-data, the default --out.
ChainSums ==
    /\ mc.pc = "idle"
    /\ McRun
    /\ ~mc'.include_data
    /\ mc'.out = ManifestPath

\* zenodo_pack.py --tag T, once the manifest is written.
ChainPack ==
    /\ mc.pc = "done"
    /\ mc.exit = 0
    /\ PkRun
    /\ pk'.builder = "zenodo_pack"
    /\ ~pk'.include_data

\* verify_archive.py on the archive just built.
ChainVerify ==
    /\ pk.pc = "done"
    /\ pk.exit = 0
    /\ vf.pc = "idle"
    /\ vf' = VfStart(<<pk.out>>)
    /\ UNCHANGED <<fs, zips, mc, pk, codec, faults, cs, gr>>

ChainNext ==
    \/ ChainSums
    \/ McGather
    \/ McOpen
    \/ McWriteLine
    \/ McClose
    \/ ChainPack
    \/ PkOpen
    \/ PkRootFiles
    \/ PkMetadata
    \/ PkSubtrees
    \/ PkClose
    \/ ChainVerify
    \/ VfExpand
    \/ VfOpen
    \/ VfEntry
    \/ VfClose
    \/ VfExit

\* Both mandatory PDFs, at most MaxFiles other files, no manifest and no
\* archive yet; the files of one tree hold different bytes.
ChainInit ==
    /\ \E t \in SmallTrees(ChainCandidates, MaxFiles) :
          fs = [p \in Universe |->
                   IF p \in MandatoryPdfs THEN File(<<"x">>)
                   ELSE IF t[p].exists /\ p[1] = S_dist THEN File(<<"y">>)
                   ELSE t[p]]
    /\ zips = NoArchives
    /\ mc = McIdle
    /\ faults = NoFaults
    /\ cs = CsIdle
    /\ gr = GrIdle
    /\ pk = PkIdle
    /\ vf = VfIdle
    /\ codec = CodecIdle

SpecChain == ChainInit /\ [][ChainNext]_vars

\* C17: manifest and archive generated from the same tree agree: every file
\* the manifest lists is a member of the archive under "plr-prl/" with the
\* bytes of the file, and verify_archive passes.
C17_ManifestInArchive ==
    /\ (pk.pc = "done" /\ pk.exit = 0)
       => \A n \in 1..Len(mc.files) :
             LET arc == TopFolder \o PathStr(mc.files[n])
             IN  /\ ZipHas(zips[pk.out].members, arc)
                 /\ ZipRead(zips[pk.out].members, arc) = fs[mc.files[n]].data
    /\ vf.pc = "done" => vf.exit = 0

\* The same over trees without a hidden directory and without a
\* README_packaging.md at the root: there the archive holds every listed file.
ChainAgreesOnPlainTrees ==
    (/\ ~IsFile(fs, <<S_README_packaging_md>>)
     /\ ~IsFile(fs, <<S_scripts, N_dot_h, N_c_py>>))
    => C17_ManifestInArchive

(***************************************************************************)
(* check_summary.py                                                        *)
(***************************************************************************)

\* FIELDS, line 12, without the five fields of the columns residual and
\* sigma.
FIELDS == <<"input", "kind", "n", "min_u", "max_u", "span_u", "monotonic_u">>

\* A float: a number, written <<v>>, or float("nan"), written <<>>.
Float(v) == <<v>>
NaN == <<>>

RECURSIVE NonDecreasing(_)
NonDecreasing(u) ==
    IF Len(u) <= 1 THEN TRUE
    ELSE u[1] <= u[2] /\ NonDecreasing(Tail(u))

\* stats_for, lines 16-33, on the column u of a table that was read (the
\* statistics of the columns residual and sigma are computed alike and take
\* no part in which rows are written).
stats_for(u) ==
    LET n == Len(u)
        vals == {u[i] : i \in 1..n}
    IN  [n |-> n,
         min_u |-> IF n > 0 THEN Float(MinOf(vals)) ELSE NaN,
         max_u |-> IF n > 0 THEN Float(MaxOf(vals)) ELSE NaN,
         span_u |-> IF n > 0 THEN Float(MaxOf(vals) - MinOf(vals)) ELSE NaN,
         monotonic_u |-> NonDecreasing(u)]

\* os.path.isfile(path)
CsIsFile(files, path) == path \in DOMAIN files /\ files[path].state # "missing"

\* pd.read_csv(path) and the three column lookups succeed.
CsReadable(files, path) == CsIsFile(files, path) /\ files[path].state = "table"

\* main, line 48: not path or not os.path.isfile(path).
CsSkipped(files, path) == path = "" \/ ~CsIsFile(files, path)

\* main, line 51: {"input": path, "kind": kind, **st}
CsRow(path, kind, st) ==
    [input |-> path, kind |-> kind, n |-> st.n, min_u |-> st.min_u,
     max_u |-> st.max_u, span_u |-> st.span_u, monotonic_u |-> st.monotonic_u]

\* The cells of a row in the order of FIELDS.
CsCells(row) == [f \in 1..Len(FIELDS) |-> row[FIELDS[f]]]

\* csv.DictWriter.writerow / the markdown line of lines 74-75: the cells in
\* the order of FIELDS, in the given dialect.
CsRender(dialect, rows) ==
    [r \in 1..Len(rows) |-> [dialect |-> dialect, cells |-> CsCells(rows[r])]]

\* main, line 42: open(args.manifest) fails, the file is not there.
CsNoManifest ==
    /\ cs.pc = "start"
    /\ cs.manifest = "missing"
    /\ cs' = [cs EXCEPT !.pc = "raised", !.exit = 1]
    /\ UNCHANGED <<fs, zips, mc, pk, vf, codec, faults, gr>>

\* main, lines 42-43: an empty manifest loads as None, man.get raises.
CsEmptyManifest ==
    /\ cs.pc = "start"
    /\ cs.manifest = "empty"
    /\ cs' = [cs EXCEPT !.pc = "raised", !.exit = 1, !.handle = "open"]
    /\ UNCHANGED <<fs, zips, mc, pk, vf, codec, faults, gr>>

\* main, lines 42-44: the manifest loaded; the handle is left to the
\* interpreter.
CsLoad ==
    /\ cs.pc = "start"
    /\ cs.manifest = "mapping"
    /\ cs' = [cs EXCEPT !.pc = "loop", !.handle = "open", !.i = 0, !.rows = <<>>]
    /\ UNCHANGED <<fs, zips, mc, pk, vf, codec, faults, gr>>

\* The interpreter collects the file object of line 42 and closes it, at a
\* time of its choosing.
CsCollect ==
    /\ cs.handle = "open"
    /\ cs' = [cs EXCEPT !.handle = "closed"]
    /\ UNCHANGED <<fs, zips, mc, pk, vf, codec, faults, gr>>

CsHasNext == cs.pc = "loop" /\ cs.i < Len(cs.figs)

\* main, lines 45-49: a declared input without a path or not a file.
CsSkip ==
    /\ CsHasNext
    /\ CsSkipped(cs.files, cs.figs[cs.i + 1].input)
    /\ cs' = [cs EXCEPT !.i = @ + 1]
    /\ UNCHANGED <<fs, zips, mc, pk, vf, codec, faults, gr>>

\* main, lines 50-51: statistics of a file that reads.
CsStats ==
    /\ CsHasNext
    /\ ~CsSkipped(cs.files, cs.figs[cs.i + 1].input)
    /\ CsReadable(cs.files, cs.figs[cs.i + 1].input)
    /\ LET spec == cs.figs[cs.i + 1]
       IN  cs' = [cs EXCEPT !.i = @ + 1,
                            !.rows = Append(@, CsRow(spec.input, spec.kind,
                                                     stats_for(cs.files[spec.input].u)))]
    /\ UNCHANGED <<fs, zips, mc, pk, vf, codec, faults, gr>>

\* main, line 50: stats_for raises on a file that does not read (no
\* permission, no CSV, a column missing); nothing catches it.
CsUnreadable ==
    /\ CsHasNext
    /\ ~CsSkipped(cs.files, cs.figs[cs.i + 1].input)
    /\ ~CsReadable(cs.files, cs.figs[cs.i + 1].input)
    /\ cs' = [cs EXCEPT !.pc = "raised", !.exit = 1]
    /\ UNCHANGED <<fs, zips, mc, pk, vf, codec, faults, gr>>

\* main, lines 53-57: the CSV on standard output.
CsWriteCsv ==
    /\ cs.pc = "loop"
    /\ ~CsHasNext
    /\ cs' = [cs EXCEPT !.pc = "out", !.stdout = CsRender("csv", cs.rows)]
    /\ UNCHANGED <<fs, zips, mc, pk, vf, codec, faults, gr>>

\* main, line 59: no --out.
CsNoOut ==
    /\ cs.pc = "out"
    /\ cs.out = "none"
    /\ cs' = [cs EXCEPT !.pc = "md"]
    /\ UNCHANGED <<fs, zips, mc, pk, vf, codec, faults, gr>>

\* main, line 60: --out names a file without a directory part;
\* os.makedirs("") raises FileNotFoundError.
CsOutBare ==
    /\ cs.pc = "out"
    /\ cs.out = "bare"
    /\ cs' = [cs EXCEPT !.pc = "raised", !.exit = 1]
    /\ UNCHANGED <<fs, zips, mc, pk, vf, codec, faults, gr>>

\* main, lines 59-65: the CSV file.
CsOutFile ==
    /\ cs.pc = "out"
    /\ cs.out = "dir"
    /\ cs' = [cs EXCEPT !.pc = "md", !.out_csv = CsRender("csv", cs.rows)]
    /\ UNCHANGED <<fs, zips, mc, pk, vf, codec, faults, gr>>

\* main, line 67: no --markdown.
CsNoMarkdown ==
    /\ cs.pc = "md"
    /\ ~cs.markdown
    /\ cs' = [cs EXCEPT !.pc = "done", !.exit = 0]
    /\ UNCHANGED <<fs, zips, mc, pk, vf, codec, faults, gr>>

\* main, lines 67-81: the table on standard error and, with --out, in the
\* .md file next to the CSV file.
CsMarkdown ==
    /\ cs.pc = "md"
    /\ cs.markdown
    /\ cs' = [cs EXCEPT !.pc = "done", !.exit = 0,
                        !.stderr_md = CsRender("markdown", cs.rows),
                        !.out_md = IF cs.out = "none" THEN <<>>
                                   ELSE CsRender("markdown", cs.rows)]
    /\ UNCHANGED <<fs, zips, mc, pk, vf, codec, faults, gr>>

CsNext ==
    \/ CsNoManifest
    \/ CsEmptyManifest
    \/ CsLoad
    \/ CsCollect
    \/ CsSkip
    \/ CsStats
    \/ CsUnreadable
    \/ CsWriteCsv
    \/ CsNoOut
    \/ CsOutBare
    \/ CsOutFile
    \/ CsNoMarkdown
    \/ CsMarkdown

MaxFigs == 2

\* The input files the manifest may declare, and what they hold: nothing, a
\* file that does not read, or the column u of a table.
CsInputNames == {"a.csv", "b.csv"}
CsTables == {<<>>, <<1>>, <<2, 1>>}
CsFileStates ==
    {[state |-> "missing", u |-> <<>>], [state |-> "unreadable", u |-> <<>>]}
        \cup {[state |-> "table", u |-> t] : t \in CsTables}
CsSpecs == [input : CsInputNames \cup {""}, kind : {"rc"}]

CsInit ==
    /\ \E man \in {"missing", "empty", "mapping"},
          figs \in UNION {[1..m -> CsSpecs] : m \in 0..MaxFigs},
          files \in [CsInputNames -> CsFileStates],
          out \in {"none", "bare", "dir"}, markdown \in BOOLEAN :
          /\ man # "mapping" => figs = <<>>
          /\ cs = [CsIdle EXCEPT !.pc = "start", !.manifest = man, !.figs = figs,
                                 !.files = files, !.out = out, !.markdown = markdown]
    /\ fs = EmptyTree
    /\ zips = NoArchives
    /\ mc = McIdle
    /\ pk = PkIdle
    /\ vf = VfIdle
    /\ codec = CodecIdle
    /\ faults = NoFaults
    /\ gr = GrIdle

SpecSummary == CsInit /\ [][CsNext]_vars

\* The rows the claim expects: one per declared input that is a file and
\* reads, in declaration order.
CsExpected ==
    LET kept == SelectSeq(cs.figs, LAMBDA spec : spec.input # ""
                                                 /\ CsReadable(cs.files, spec.input))
    IN  [r \in 1..Len(kept) |->
            CsCells(CsRow(kept[r].input, kept[r].kind,
                          stats_for(cs.files[kept[r].input].u)))]

CsCellsOf(lines) == [r \in 1..Len(lines) |-> lines[r].cells]

CsEnded == cs.pc \in {"done", "raised"}

\* The run ended well and its outputs hold the expected rows, the markdown
\* table the rows of the CSV in the same order.
CsRowsAgree ==
    /\ cs.pc = "done"
    /\ cs.exit = 0
    /\ CsCellsOf(cs.stdout) = CsExpected
    /\ cs.out = "dir" => cs.out_csv = cs.stdout
    /\ cs.markdown => CsCellsOf(cs.stderr_md) = CsCellsOf(cs.stdout)
    /\ (cs.markdown /\ cs.out = "dir") => cs.out_md = cs.stderr_md

\* C12: the summarizer skips every declared input that is missing or
\* unreadable without failing the run and emits one row per remaining input
\* in declaration order, the CSV and the markdown table alike (for a manifest
\* that loads and an --out, if any, with a directory part).
C12_SkipsAndAgrees ==
    (CsEnded /\ cs.manifest = "mapping" /\ cs.out # "bare") => CsRowsAgree

\* The same where every declared input that is a file also reads: missing
\* inputs are skipped and the outputs agree.
CsMissingSkipped ==
    (/\ CsEnded /\ cs.manifest = "mapping" /\ cs.out # "bare"
     /\ \A n \in 1..Len(cs.figs) :
           CsIsFile(cs.files, cs.figs[n].input)
           => CsReadable(cs.files, cs.figs[n].input))
    => CsRowsAgree

(***************************************************************************)
(* ghost_reorg.py                                                          *)
(***************************************************************************)

\* A plan: the folders in dictionary order, each with its list of files; a
\* file is a path, the tuple of its components.
DEFAULT_MOVES ==
    << [folder |-> "dist",
        files |-> << <<"CITATION.cff">>, <<"zenodo.json">>,
                     <<"README_packaging.md">>, <<"FILE_LISTING.txt">> >>],
       [folder |-> "scripts",
        files |-> << <<"prereg_pack.py">>, <<"zenodo_pack.py">>,
                     <<"zenodo_preflight.py">>, <<"verify_archive.py">>,
                     <<"make_checksums.py">>, <<"check_summary.py">> >>],
       [folder |-> "reports", files |-> << <<"check_summary.csv">> >>] >>

DEFAULT_BRANCH == "reorganize/dist-scripts-reports"
DEFAULT_BASE == "main"

\* move_target, lines 148-154.
move_target(folder, src_path, preserve_paths) ==
    IF preserve_paths THEN <<folder>> \o src_path
    ELSE <<folder, src_path[Len(src_path)]>>

\* plan_moves, lines 156-164: the (src, dst) pairs in plan order.
RECURSIVE plan_moves(_, _)
plan_moves(plan, preserve_paths) ==
    IF plan = <<>> THEN <<>>
    ELSE LET folder == Head(plan).folder
             files  == Head(plan).files
         IN  [n \in 1..Len(files) |->
                 [src |-> files[n],
                  dst |-> move_target(folder, files[n], preserve_paths)]]
             \o plan_moves(Tail(plan), preserve_paths)

\* Path.exists() in the working tree.
GrExists(repo, p) == p \in repo.work \cup repo.untracked

\* git status --porcelain prints something: staged moves or untracked files.
GrStatus(repo) == repo.work # repo.heads[repo.current] \/ repo.untracked # {}

\* git checkout <branch>: the working tree takes the branch's files (the
\* untracked files of the model's repositories lie at no tracked path).
GrCheckout(repo, b) == [repo EXCEPT !.current = b, !.work = repo.heads[b]]

\* git checkout -b <branch>: a new branch at the current commit.
GrCheckoutNew(repo, b) ==
    [repo EXCEPT !.current = b,
                 !.branches = @ \cup {b},
                 !.heads = [x \in DOMAIN @ \cup {b} |->
                               IF x = b THEN repo.heads[repo.current] ELSE @[x]]]

\* ensure_branch, lines 119-128.
ensure_branch(repo, base, branch) ==
    LET on_base == IF repo.current # base THEN GrCheckout(repo, base) ELSE repo
    IN  IF branch \in on_base.branches
        THEN GrCheckout(on_base, branch)
        ELSE GrCheckoutNew(on_base, branch)

\* ensure_clean_worktree, lines 113-117: the tree is dirty and --force is not
\* given.
GrDirty ==
    /\ gr.pc = "start"
    /\ GrStatus(gr.repo) /\ ~gr.args.force
    /\ gr' = [gr EXCEPT !.pc = "ended", !.exit = 1, !.summary = "fail"]
    /\ UNCHANGED <<fs, zips, mc, pk, vf, codec, faults, cs>>

\* main, lines 208-218: the plan loaded, the tree clean or forced, the branch
\* created or switched to, the plan printed.
GrPreflight ==
    /\ gr.pc = "start"
    /\ ~GrStatus(gr.repo) \/ gr.args.force
    /\ gr' = [gr EXCEPT !.pc = "preview",
                        !.moves = plan_moves(gr.args.plan, gr.args.preserve_paths),
                        !.repo = ensure_branch(@, DEFAULT_BASE, DEFAULT_BRANCH)]
    /\ UNCHANGED <<fs, zips, mc, pk, vf, codec, faults, cs>>

\* main, lines 230-236: without --apply the run ends here.
GrDryRun ==
    /\ gr.pc = "preview"
    /\ ~gr.args.apply
    /\ gr' = [gr EXCEPT !.pc = "ended", !.exit = 0, !.summary = "dry run"]
    /\ UNCHANGED <<fs, zips, mc, pk, vf, codec, faults, cs>>

\* main, lines 226-239: with --apply the moves begin.
GrApply ==
    /\ gr.pc = "preview"
    /\ gr.args.apply
    /\ gr' = [gr EXCEPT !.pc = "moving", !.k = 0, !.applying = TRUE,
                        !.moved_count = 0, !.skipped_count = 0, !.error_count = 0]
    /\ UNCHANGED <<fs, zips, mc, pk, vf, codec, faults, cs>>

GrHasNext == gr.pc = "moving" /\ gr.k < Len(gr.moves)

\* safe_git_mv, lines 182-183, and main, lines 247-248: the source is not
\* there; counted as an error.
GrNotFound ==
    /\ GrHasNext
    /\ ~GrExists(gr.repo, gr.moves[gr.k + 1].src)
    /\ gr' = [gr EXCEPT !.k = @ + 1, !.error_count = @ + 1]
    /\ UNCHANGED <<fs, zips, mc, pk, vf, codec, faults, cs>>

\* safe_git_mv, lines 184-185, and main, lines 249-250: source and target are
\* the same file.
GrAlready ==
    /\ GrHasNext
    /\ LET mv == gr.moves[gr.k + 1]
       IN  GrExists(gr.repo, mv.src) /\ mv.src = mv.dst
    /\ gr' = [gr EXCEPT !.k = @ + 1, !.skipped_count = @ + 1]
    /\ UNCHANGED <<fs, zips, mc, pk, vf, codec, faults, cs>>

\* git mv succeeds: the source is tracked and nothing is at the target.
GrMvOk(repo, mv) == mv.src \in repo.work /\ ~GrExists(repo, mv.dst)

\* safe_git_mv, lines 186-188, and main, lines 243-244.
GrMoved ==
    /\ GrHasNext
    /\ LET mv == gr.moves[gr.k + 1]
       IN  /\ GrExists(gr.repo, mv.src) /\ mv.src # mv.dst
           /\ GrMvOk(gr.repo, mv)
           /\ gr' = [gr EXCEPT !.k = @ + 1, !.moved_count = @ + 1,
                               !.repo.work = (@ \ {mv.src}) \cup {mv.dst}]
    /\ UNCHANGED <<fs, zips, mc, pk, vf, codec, faults, cs>>

\* safe_git_mv, line 187: git mv fails (the source is not under version
\* control, or the target exists).  run() prints the [fail] line and calls
\* sys.exit(1) (lines 96-100); SystemExit is no Exception, so the handler of
\* lines 251-253 does not see it: the run ends here.
GrMvFails ==
    /\ GrHasNext
    /\ LET mv == gr.moves[gr.k + 1]
       IN  /\ GrExists(gr.repo, mv.src) /\ mv.src # mv.dst
           /\ ~GrMvOk(gr.repo, mv)
    /\ gr' = [gr EXCEPT !.pc = "ended", !.exit = 1, !.summary = "fail"]
    /\ UNCHANGED <<fs, zips, mc, pk, vf, codec, faults, cs>>

\* main, lines 256-259: moves are staged and committed.
GrCommit ==
    /\ gr.pc = "moving" /\ ~GrHasNext
    /\ gr.repo.work # gr.repo.heads[gr.repo.current]
    /\ gr' = [gr EXCEPT !.pc = "push",
                        !.repo.heads[gr.repo.current] = gr.repo.work,
                        !.repo.commits = @ + 1]
    /\ UNCHANGED <<fs, zips, mc, pk, vf, codec, faults, cs>>

\* main, lines 256-258: the status lists untracked files only; git commit
\* finds nothing staged and fails, run() exits.
GrCommitFails ==
    /\ gr.pc = "moving" /\ ~GrHasNext
    /\ gr.repo.work = gr.repo.heads[gr.repo.current]
    /\ gr.repo.untracked # {}
    /\ gr' = [gr EXCEPT !.pc = "ended", !.exit = 1, !.summary = "fail"]
    /\ UNCHANGED <<fs, zips, mc, pk, vf, codec, faults, cs>>

\* main, lines 256-261: nothing changed.
GrNothingToCommit ==
    /\ gr.pc = "moving" /\ ~GrHasNext
    /\ ~GrStatus(gr.repo)
    /\ gr' = [gr EXCEPT !.pc = "push"]
    /\ UNCHANGED <<fs, zips, mc, pk, vf, codec, faults, cs>>

\* main, line 264: no --push.
GrNoPush ==
    /\ gr.pc = "push"
    /\ ~gr.args.push
    /\ gr' = [gr EXCEPT !.pc = "pr"]
    /\ UNCHANGED <<fs, zips, mc, pk, vf, codec, faults, cs>>

\* main, lines 264-266: git push succeeds, or fails and run() exits.
GrPush ==
    /\ gr.pc = "push"
    /\ gr.args.push
    /\ \E ok \in BOOLEAN :
          gr' = IF ok
                THEN [gr EXCEPT !.pc = "pr", !.repo.pushed = @ \cup {gr.repo.current}]
                ELSE [gr EXCEPT !.pc = "ended", !.exit = 1, !.summary = "fail"]
    /\ UNCHANGED <<fs, zips, mc, pk, vf, codec, faults, cs>>

\* main, lines 269-271 and 286-291: no pull request asked for, or no gh.
GrNoPr ==
    /\ gr.pc = "pr"
    /\ ~gr.args.open_pr \/ ~gr.gh
    /\ gr' = [gr EXCEPT !.pc = "ended", !.exit = 0, !.summary = "apply complete"]
    /\ UNCHANGED <<fs, zips, mc, pk, vf, codec, faults, cs>>

\* main, lines 269-291: gh pr create succeeds, or fails and run() exits.
GrOpenPr ==
    /\ gr.pc = "pr"
    /\ gr.args.open_pr /\ gr.gh
    /\ \E ok \in BOOLEAN :
          gr' = IF ok
                THEN [gr EXCEPT !.pc = "ended", !.exit = 0,
                                !.summary = "apply complete", !.repo.prs = @ + 1]
                ELSE [gr EXCEPT !.pc = "ended", !.exit = 1, !.summary = "fail"]
    /\ UNCHANGED <<fs, zips, mc, pk, vf, codec, faults, cs>>

\* The same command line again after a run that ended well.
GrRerun ==
    /\ gr.pc = "ended"
    /\ gr.exit = 0
    /\ gr.runs < MaxRuns
    /\ gr' = [gr EXCEPT !.pc = "start", !.exit = -1, !.summary = "none",
                        !.before = gr.repo, !.runs = @ + 1, !.applying = FALSE,
                        !.k = 0, !.moved_count = 0, !.skipped_count = 0,
                        !.error_count = 0]
    /\ UNCHANGED <<fs, zips, mc, pk, vf, codec, faults, cs>>

GrNext ==
    \/ GrDirty
    \/ GrPreflight
    \/ GrDryRun
    \/ GrApply
    \/ GrNotFound
    \/ GrAlready
    \/ GrMoved
    \/ GrMvFails
    \/ GrCommit
    \/ GrCommitFails
    \/ GrNothingToCommit
    \/ GrNoPush
    \/ GrPush
    \/ GrNoPr
    \/ GrOpenPr
    \/ GrRerun

MaxMoves == 2

\* Files a plan file may list, and the plans tried: DEFAULT_MOVES, or one
\* folder with at most MaxMoves files.
GrSources == {<<"CITATION.cff">>, <<"zenodo.json">>, <<"dist", "CITATION.cff">>}
GrPlans ==
    {DEFAULT_MOVES}
        \cup {<<[folder |-> "dist", files |-> f]>> :
                 f \in UNION {[1..m -> GrSources] : m \in 0..MaxMoves}}

\* Repositories: some of the files tracked, the same on every branch; at most
\* one untracked file; on the base branch or on the target branch.
GrRepos ==
    {[current |-> cur, branches |-> bs, heads |-> [b \in bs |-> tracked],
      work |-> tracked, untracked |-> un, commits |-> 1, pushed |-> {}, prs |-> 0] :
        cur \in {DEFAULT_BASE, DEFAULT_BRANCH},
        bs \in {{DEFAULT_BASE}, {DEFAULT_BASE, DEFAULT_BRANCH}},
        tracked \in SUBSET GrSources,
        un \in {{}, {<<"zenodo.json">>}, {<<"dist", "zenodo.json">>}}}

GrInit ==
    /\ \E repo \in GrRepos, plan \in GrPlans,
          apply \in BOOLEAN, force \in BOOLEAN, push \in BOOLEAN,
          open_pr \in BOOLEAN, gh \in BOOLEAN, preserve \in BOOLEAN :
          /\ repo.current \in repo.branches
          /\ repo.untracked \cap repo.work = {}
          /\ ~open_pr => ~gh
          /\ gr = [GrIdle EXCEPT !.pc = "start", !.runs = 1, !.gh = gh,
                                 !.repo = repo, !.before = repo,
                                 !.args = [apply |-> apply, force |-> force,
                                           push |-> push, open_pr |-> open_pr,
                                           preserve_paths |-> preserve,
                                           plan |-> plan]]
    /\ fs = EmptyTree
    /\ zips = NoArchives
    /\ mc = McIdle
    /\ pk = PkIdle
    /\ vf = VfIdle
    /\ codec = CodecIdle
    /\ faults = NoFaults
    /\ cs = CsIdle

SpecReorg == GrInit /\ [][GrNext]_vars

GrEnded == gr.pc = "ended"

\* C13: a run without --apply changes nothing in the repository: no file
\* moved, no commit, nothing pushed, no pull request, no branch created or
\* switched to; the repository after the run is the repository before it.
C13_DryRunChangesNothing ==
    (GrEnded /\ ~gr.args.apply) => gr.repo = gr.before

\* What a dry run does keep: files, commits, remote and pull requests.
DryRunKeepsFiles ==
    (GrEnded /\ ~gr.args.apply)
    => /\ gr.repo.work = gr.before.work
       /\ gr.repo.untracked = gr.before.untracked
       /\ gr.repo.commits = gr.before.commits
       /\ gr.repo.pushed = gr.before.pushed
       /\ gr.repo.prs = gr.before.prs
       /\ \A b \in gr.before.branches : gr.repo.heads[b] = gr.before.heads[b]

\* Every planned move is counted once, as moved, skipped or error.
GrCountsAddUp ==
    (GrEnded /\ gr.applying)
    => gr.moved_count + gr.skipped_count + gr.error_count = Len(gr.moves)

\* A second apply after a first that ended well moves nothing, commits
\* nothing and leaves the files where they are.
GrSecondApplyIdle ==
    (GrEnded /\ gr.applying /\ gr.runs = 2)
    => /\ gr.moved_count = 0
       /\ gr.repo.commits = gr.before.commits
       /\ gr.repo.work = gr.before.work

\* C14: the move plan is idempotent (a second apply after a successful first
\* one moves nothing, commits nothing, leaves every file in place), and in
\* every apply run moved + skipped + errors is the number of planned moves.
C14_IdempotentPlan == GrSecondApplyIdle /\ GrCountsAddUp

\* The counts add up in every apply run that reaches its summary.
GrCountsAddUpAtSummary ==
    (GrEnded /\ gr.applying /\ gr.summary = "apply complete")
    => gr.moved_count + gr.skipped_count + gr.error_count = Len(gr.moves)

\* The default plan is idempotent.
GrDefaultPlanIdempotent ==
    gr.args.plan = DEFAULT_MOVES => GrSecondApplyIdle

(***************************************************************************)
(* Codec round trip: write a mapping as make_checksums does, read it back  *)
(* as verify_archive does.                                                 *)
(***************************************************************************)

MaxEntries == 2
MaxPathLen == 2

\* Path characters tried: a letter, the comment character, a blank.
PathChars == {"a", "#", " "}

RECURSIVE StringsUpTo(_, _)
StringsUpTo(chars, n) ==
    IF n = 0 THEN {<<>>}
    ELSE LET shorter == StringsUpTo(chars, n - 1)
         IN  shorter \cup {Append(s, c) : s \in shorter, c \in chars}

CodecPaths == StringsUpTo(PathChars, MaxPathLen) \ {<<>>}

\* Hex digests tried (short stand-ins for 64 hex characters).
CodecDigests == {<<"0">>, <<"f", "0">>}

\* Sequences of (path, digest) pairs with distinct paths.
CodecEntries ==
    UNION {{e \in [1..n -> CodecPaths \X CodecDigests] :
               \A i, j \in 1..n : i # j => e[i][1] # e[j][1]} : n \in 0..MaxEntries}

NoWhitespace(s) == \A i \in 1..Len(s) : ~IsSpace(s[i])

CodecInit ==
    /\ \E e \in CodecEntries :
          codec = [pc |-> "input", entries |-> e, text |-> <<>>, parsed |-> <<>>]
    /\ fs = EmptyTree
    /\ zips = NoArchives
    /\ mc = McIdle
    /\ faults = NoFaults
    /\ cs = CsIdle
    /\ gr = GrIdle
    /\ pk = PkIdle
    /\ vf = VfIdle

\* make_checksums.main, lines 87-92: header, then one line per entry.
CodecWrite ==
    /\ codec.pc = "input"
    /\ codec' = [codec EXCEPT !.pc = "written", !.text = ManifestText(codec.entries)]
    /\ UNCHANGED <<fs, zips, mc, pk, vf, faults, cs, gr>>

\* verify_archive, lines 58-59: load_manifest(fh.readlines()).
CodecRead ==
    /\ codec.pc = "written"
    /\ codec' = [codec EXCEPT !.pc = "parsed",
                              !.parsed = load_manifest(ReadLines(codec.text))]
    /\ UNCHANGED <<fs, zips, mc, pk, vf, faults, cs, gr>>

CodecNext == CodecWrite \/ CodecRead

SpecCodec == CodecInit /\ [][CodecNext]_vars

\* C5: for a mapping whose paths hold no whitespace, parsing what was written
\* gives the mapping back.
C5_RoundTrip ==
    (codec.pc = "parsed"
       /\ \A i \in 1..Len(codec.entries) : NoWhitespace(codec.entries[i][1]))
    => AsMap(codec.parsed) = AsMap(codec.entries)

\* A two-entry mapping, one path beginning with "#", has been parsed.
C5_Witness ==
    /\ codec.pc = "parsed"
    /\ Len(codec.entries) = 2
    /\ \A i \in 1..2 : NoWhitespace(codec.entries[i][1])
    /\ \E i \in 1..2 : codec.entries[i][1][1] = "#"

====
